---------------------------- MODULE Spec2Model ----------------------------
(***************************************************************************)
(* Quickcart: the client cart state model and product search              *)
(* (src/src/App.tsx: App, HomePage and CheckoutPage) and the endpoints of  *)
(* the order and account service (src/server.ts).                          *)
(*                                                                         *)
(* One action per event handler.  A handler is modelled together with the  *)
(* state update it dispatches: React flushes the update of a discrete      *)
(* event before the next event is delivered, so the props a handler closes *)
(* over (cart, cartTotal, user) are the ones of the current state.         *)
(*                                                                         *)
(* Spec is the client with the order endpoint and the transport between    *)
(* them, LiveSpec the same with a fair network and event loop; CartSpec is *)
(* the cart interface under every sequence of calls; ResubmitSpec is a     *)
(* logged-in session that may place orders repeatedly; OrderSpec,          *)
(* HistorySpec, PriceSpec, UserSpec and AccountSpec are the endpoints of   *)
(* the server called by any client; SearchSpec is the product search;      *)
(* RecSpec is the cart with its AI suggestions; AuthSpec is the form of    *)
(* AuthPage against the account endpoints; BatchSpec is the queue of cart  *)
(* updates between two renders.                                            *)
(***************************************************************************)
EXTENDS Integers, Sequences, FiniteSets, TLC

(***************************************************************************)
(* Bounds of the model.                                                    *)
(***************************************************************************)
NumProducts == 2      \* products of the seeded catalog that are shopped for
MaxQty      == 2      \* largest quantity a cart line is driven to
MaxPlaced   == 1      \* order requests issued in one behaviour
MaxResubmit == 2      \* the same, where Place Order is clicked again
MaxPosted   == 2      \* order requests posted by any client
NumUsers    == 1      \* user ids that can be logged in
MaxClock    == 1      \* seconds the server clock advances
MaxQueryLen == 2      \* longest search query typed
MaxRecCalls == 2      \* recommendation calls pending at the same time
MaxBatch    == 3      \* cart updates dispatched before the next render

(***************************************************************************)
(* Program constants.                                                      *)
(***************************************************************************)
HandlingFee    == 2   \* total: cartTotal + 2
SentinelUserId == 1   \* run(userId || 1, total)

\* price column of seedProducts; ids are assigned 1, 2, ... by AUTOINCREMENT
SeedPrice == <<33, 45, 20, 65, 245, 48, 199, 99>>

\* name column of seedProducts, each name as its sequence of characters
SeedName == <<
    <<"A", "m", "u", "l", " ", "G", "o", "l", "d", " ", "M", "i", "l", "k">>,
    <<"H", "a", "r", "v", "e", "s", "t", " ", "G", "o", "l", "d", " ", "B", "r", "e", "a", "d">>,
    <<"L", "a", "y", "s", " ", "C", "l", "a", "s", "s", "i", "c", " ", "S", "a", "l", "t", "e", "d">>,
    <<"C", "o", "c", "a", " ", "C", "o", "l", "a", " ", "1", ".", "2", "5", "L">>,
    <<"A", "a", "s", "h", "i", "r", "v", "a", "a", "d", " ", "A", "t", "t", "a", " ", "5", "k", "g">>,
    <<"M", "a", "g", "g", "i", " ", "N", "o", "o", "d", "l", "e", "s", " ", "2", "8", "0", "g">>,
    <<"S", "u", "r", "f", " ", "E", "x", "c", "e", "l", " ", "M", "a", "t", "i", "c">>,
    <<"D", "e", "t", "t", "o", "l", " ", "H", "a", "n", "d", "w", "a", "s", "h">> >>

\* category column of seedProducts
SeedCategory == <<
    <<"D", "a", "i", "r", "y">>,
    <<"B", "a", "k", "e", "r", "y">>,
    <<"S", "n", "a", "c", "k", "s">>,
    <<"B", "e", "v", "e", "r", "a", "g", "e", "s">>,
    <<"A", "t", "t", "a", ",", " ", "R", "i", "c", "e", " ", "&", " ", "D", "a", "l">>,
    <<"I", "n", "s", "t", "a", "n", "t", " ", "F", "o", "o", "d">>,
    <<"C", "l", "e", "a", "n", "i", "n", "g">>,
    <<"P", "e", "r", "s", "o", "n", "a", "l", " ", "C", "a", "r", "e">> >>

\* the response of GET /api/products: SELECT * FROM products, in id order
Catalog ==
    [i \in 1..NumProducts |->
        [id |-> i, name |-> SeedName[i], category |-> SeedCategory[i],
         price |-> SeedPrice[i]]]

\* the rows of GET /api/products the client shops from
Products == { [id |-> i, price |-> SeedPrice[i]] : i \in 1..NumProducts }

ProductIds == { p.id : p \in Products }

UserIds == 1..NumUsers

NoUser == 0           \* useState<UserData | null>(null)

Absent == -1          \* a field that the JSON body of a request does not have

All == <<"A", "l", "l">>        \* the category 'All'

\* no response of GET /api/orders/user/:userId yet
NoListing == [userId |-> Absent, rows |-> << >>]

\* AuthPage as mounted: the login form with empty fields
NoForm == [isLogin |-> TRUE, email |-> "", password |-> "", name |-> ""]

\* no render has processed a queue of cart updates yet
NoFlush == [base |-> << >>, updates |-> << >>]

\* no response of POST /api/register or POST /api/login yet
NoReply ==
    [call |-> [op |-> "none", email |-> "", password |-> ""],
     before |-> << >>,
     status |-> 0, success |-> FALSE, user |-> << >>, message |-> ""]

VARIABLES
    cart,             \* App: useState<CartItem[]>([])
    user,             \* App: useState<UserData | null>(null), as the user id
    route,            \* the route rendered by <Routes>
    isPlacingOrder,   \* CheckoutPage: useState(false) of the mounted instance
    requests,         \* POST /api/orders calls whose promise is not settled
    placed,           \* number of order requests issued so far
    orders,           \* table orders, in rowid order
    order_items,      \* table order_items, in rowid order
    recording,        \* history: whether cart operations are recorded
    hist,             \* history: the last two cart operations, latest first,
                      \* each with the cart it was applied to
    lastSettled,      \* history: how the last settled order request ended
    placedCart,       \* history: per persisted order, the cart at Place Order
    products,         \* App: useState<Product[]>([])
    loading,          \* App: useState(true)
    searchQuery,      \* App: useState(''), as a sequence of characters
    activeCategory,   \* App: useState('All')
    users,            \* table users, in rowid order
    catalogPrice,     \* table products: the price column, by product id
    clock,            \* CURRENT_TIMESTAMP of the store, in seconds
    listing,          \* the last response of GET /api/orders/user/:userId
    authReply,        \* the last response of POST /api/register, /api/login
    aiRecommendations,\* App: useState<string[]>([]), strings as characters
    recCalls,         \* getAiRecommendations calls whose promise is pending,
                      \* in the order they were issued
    cartEffect,       \* whether the effect of useEffect(..., [cart]) is due
    savedUser,        \* localStorage 'user', as the user id
    authForm,         \* AuthPage: isLogin, email, password, name
    authError,        \* AuthPage: useState('') error
    authLoading,      \* AuthPage: useState(false) loading
    updateQueue,      \* setCart updaters dispatched and not yet processed
    flushed           \* history: the updaters the last render processed and
                      \* the cart it applied them to

\* the state of the product search of HomePage
searchVars == <<products, loading, searchQuery, activeCategory>>

\* the state of the store and of its endpoints, next to the order tables
serviceVars == <<users, catalogPrice, clock, listing, authReply>>

\* the state of the AI suggestions, next to cartEffect
recoVars == <<aiRecommendations, recCalls>>

\* the state of the form of AuthPage
formVars == <<authForm, authError, authLoading>>

\* the queue of cart updates
batchVars == <<updateQueue, flushed>>

vars == <<cart, user, route, isPlacingOrder, requests, placed, orders,
          order_items, recording, hist, lastSettled, placedCart,
          searchVars, serviceVars, recoVars, cartEffect, savedUser,
          formVars, batchVars>>

(***************************************************************************)
(* Cart reducers.                                                          *)
(***************************************************************************)

\* prev.find(item => item.id === id): index of the first match, 0 if none
FindLine(prev, id) ==
    IF \E i \in DOMAIN prev : prev[i].id = id
    THEN CHOOSE i \in DOMAIN prev :
            /\ prev[i].id = id
            /\ \A j \in DOMAIN prev : prev[j].id = id => i <= j
    ELSE 0

\* addToCart without the lookup of an existing line
addToCart_append(prev, product) ==
    Append(prev, [id |-> product.id, price |-> product.price,
                  quantity |-> 1])

\* addToCart whose map forgets the id test
addToCart_allLines(prev, product) ==
    IF FindLine(prev, product.id) # 0
    THEN [i \in DOMAIN prev |-> [prev[i] EXCEPT !.quantity = @ + 1]]
    ELSE Append(prev, [id |-> product.id, price |-> product.price,
                       quantity |-> 1])

\* the updater of addToCart
addToCart(prev, product) ==
    IF FindLine(prev, product.id) # 0
    THEN [i \in DOMAIN prev |->
            IF prev[i].id = product.id
            THEN [prev[i] EXCEPT !.quantity = @ + 1]
            ELSE prev[i]]
    ELSE Append(prev, [id |-> product.id, price |-> product.price,
                       quantity |-> 1])

\* removeFromCart that decrements a line of quantity 1 (>= 1 for > 1)
removeFromCart_keepZero(prev, productId) ==
    LET existing == FindLine(prev, productId) IN
    IF existing # 0 /\ prev[existing].quantity >= 1
    THEN [i \in DOMAIN prev |->
            IF prev[i].id = productId
            THEN [prev[i] EXCEPT !.quantity = @ - 1]
            ELSE prev[i]]
    ELSE SelectSeq(prev, LAMBDA item : item.id # productId)

\* removeFromCart whose filter keeps the matching lines (=== for !==)
removeFromCart_inverted(prev, productId) ==
    LET existing == FindLine(prev, productId) IN
    IF existing # 0 /\ prev[existing].quantity > 1
    THEN [i \in DOMAIN prev |->
            IF prev[i].id = productId
            THEN [prev[i] EXCEPT !.quantity = @ - 1]
            ELSE prev[i]]
    ELSE SelectSeq(prev, LAMBDA item : item.id = productId)

\* removeFromCart that always deletes the line
removeFromCart_dropLine(prev, productId) ==
    SelectSeq(prev, LAMBDA item : item.id # productId)

\* the updater of removeFromCart
removeFromCart(prev, productId) ==
    LET existing == FindLine(prev, productId) IN
    IF existing # 0 /\ prev[existing].quantity > 1
    THEN [i \in DOMAIN prev |->
            IF prev[i].id = productId
            THEN [prev[i] EXCEPT !.quantity = @ - 1]
            ELSE prev[i]]
    ELSE SelectSeq(prev, LAMBDA item : item.id # productId)

\* cartTotal that leaves the quantity out of the product
RECURSIVE sumPrices(_, _, _)
sumPrices(c, i, sum) ==
    IF i > Len(c) THEN sum
    ELSE sumPrices(c, i + 1, sum + c[i].price)

cartTotal_noQuantity(c) == sumPrices(c, 1, 0)

\* cartCount that counts the lines (cart.length)
cartCount_lines(c) == Len(c)

\* cart.reduce((sum, item) => sum + item.price * item.quantity, 0)
RECURSIVE reduceTotal(_, _, _)
reduceTotal(c, i, sum) ==
    IF i > Len(c) THEN sum
    ELSE reduceTotal(c, i + 1, sum + c[i].price * c[i].quantity)

cartTotal(c) == reduceTotal(c, 1, 0)

\* cart.reduce((sum, item) => sum + item.quantity, 0)
RECURSIVE reduceCount(_, _, _)
reduceCount(c, i, sum) ==
    IF i > Len(c) THEN sum
    ELSE reduceCount(c, i + 1, sum + c[i].quantity)

cartCount(c) == reduceCount(c, 1, 0)

\* the quantity shown for a product: cart.find(...)?.quantity, 0 if no line
QuantityOf(c, id) ==
    IF FindLine(c, id) = 0 THEN 0 ELSE c[FindLine(c, id)].quantity

\* the state of a freshly loaded App and an empty store, but for the user
\* and the catalog
Mounted ==
    /\ cart = << >>
    /\ route = "home"
    /\ isPlacingOrder = FALSE
    /\ requests = {}
    /\ placed = 0
    /\ orders = << >>
    /\ order_items = << >>
    /\ hist = << >>
    /\ lastSettled = "none"
    /\ placedCart = << >>
    /\ searchQuery = << >>
    /\ activeCategory = All
    /\ users = << >>
    /\ catalogPrice = [id \in ProductIds |-> SeedPrice[id]]
    /\ clock = 0
    /\ listing = NoListing
    /\ authReply = NoReply
    /\ aiRecommendations = << >>
    /\ recCalls = << >>
    /\ cartEffect = FALSE
    /\ authForm = NoForm
    /\ authError = ""
    /\ authLoading = FALSE
    /\ updateQueue = << >>
    /\ flushed = NoFlush

\* fetchProducts has resolved with the catalog
CatalogLoaded ==
    /\ products = Catalog
    /\ loading = FALSE

\* The mount effect restores the user saved in localStorage by an earlier
\* session, if there is one.
Init ==
    /\ Mounted
    /\ CatalogLoaded
    /\ user \in {NoUser} \cup UserIds
    /\ savedUser = user
    /\ recording = FALSE

\* setCart: op(id) is applied to the current cart; the new cart is a new
\* array, so the render that follows schedules the effect that depends on
\* [cart]
Record(op, id) ==
    LET entry == [op |-> op, id |-> id, cart |-> cart] IN
    /\ hist' = IF ~recording THEN hist
               ELSE IF hist = << >> THEN <<entry>>
               ELSE <<entry, hist[1]>>
    /\ cartEffect' = TRUE

(***************************************************************************)
(* Cart operations (App.addToCart, App.removeFromCart).                    *)
(***************************************************************************)

\* AddToCart that waits for the pending recommendation calls
AddToCart_whenSettled(product) ==
    /\ recCalls = << >>
    /\ route = "home" \/ FindLine(cart, product.id) # 0
    /\ QuantityOf(cart, product.id) < MaxQty
    /\ cart' = addToCart(cart, product)
    /\ Record("add", product.id)
    /\ UNCHANGED <<user, route, isPlacingOrder, requests, placed, orders,
                   order_items, recording, lastSettled, placedCart,
                   searchVars, serviceVars,
                   recoVars, formVars, batchVars, savedUser>>

\* HomePage and ProductDetailPage offer every product; the cart sidebar,
\* present on every route, offers the products that already have a line.
AddToCart(product) ==
    /\ route = "home" \/ FindLine(cart, product.id) # 0
    /\ QuantityOf(cart, product.id) < MaxQty
    /\ cart' = addToCart(cart, product)
    /\ Record("add", product.id)
    /\ UNCHANGED <<user, route, isPlacingOrder, requests, placed, orders,
                   order_items, recording, lastSettled, placedCart,
                   searchVars, serviceVars,
                   recoVars, formVars, batchVars, savedUser>>

\* removeFromCart is total in productId: any id may be passed.
RemoveFromCart(productId) ==
    /\ cart' = removeFromCart(cart, productId)
    /\ Record("remove", productId)
    /\ UNCHANGED <<user, route, isPlacingOrder, requests, placed, orders,
                   order_items, recording, lastSettled, placedCart,
                   searchVars, serviceVars,
                   recoVars, formVars, batchVars, savedUser>>

\* onOrderSuccess={() => setCart([])}
onOrderSuccess ==
    /\ cart' = << >>
    /\ Record("clear", 0)

\* the cart interface called on its own: clear()
ClearCart ==
    /\ onOrderSuccess
    /\ UNCHANGED <<user, route, isPlacingOrder, requests, placed, orders,
                   order_items, recording, lastSettled, placedCart,
                   searchVars, serviceVars,
                   recoVars, formVars, batchVars, savedUser>>

(***************************************************************************)
(* Navigation.  Leaving /checkout unmounts CheckoutPage: its isPlacingOrder*)
(* state is discarded (the next mount starts from useState(false)) and the *)
(* requests it issued are left to settle against an unmounted component.   *)
(***************************************************************************)

Unmounted(rs) == { [r EXCEPT !.live = FALSE] : r \in rs }

Navigate(to) ==
    /\ route' = to
    /\ IF route = "checkout" /\ to # "checkout"
       THEN /\ isPlacingOrder' = FALSE
            /\ requests' = Unmounted(requests)
       ELSE UNCHANGED <<isPlacingOrder, requests>>

\* cart sidebar, "Proceed to Pay": rendered when cart.length > 0
ProceedToPay ==
    /\ Len(cart) > 0
    /\ route # "checkout"
    /\ Navigate("checkout")
    /\ UNCHANGED <<cart, user, placed, orders, order_items, recording,
                   hist, lastSettled, placedCart,
                   searchVars, serviceVars,
                   recoVars, formVars, batchVars, cartEffect, savedUser>>

\* <Link to="/"> of the header and of the pages, Back on the checkout page
GoHome ==
    /\ route # "home"
    /\ Navigate("home")
    /\ UNCHANGED <<cart, user, placed, orders, order_items, recording,
                   hist, lastSettled, placedCart,
                   searchVars, serviceVars,
                   recoVars, formVars, batchVars, cartEffect, savedUser>>

\* <Link to="/auth"> of the header, rendered when no user is logged in
GoAuth ==
    /\ user = NoUser
    /\ route # "auth"
    /\ Navigate("auth")
    /\ UNCHANGED <<cart, user, placed, orders, order_items, recording,
                   hist, lastSettled, placedCart,
                   searchVars, serviceVars,
                   recoVars, formVars, batchVars, cartEffect, savedUser>>

\* App.handleAuthSuccess: setUser(userData); localStorage.setItem('user', ...)
handleAuthSuccess(u) ==
    /\ user' = u
    /\ savedUser' = u

\* AuthPage.handleSubmit answered with success: onAuthSuccess(data.user);
\* navigate('/')
AuthSuccess(u) ==
    /\ route = "auth"
    /\ handleAuthSuccess(u)
    /\ Navigate("home")
    /\ UNCHANGED <<cart, placed, orders, order_items, recording, hist,
                   lastSettled, placedCart,
                   searchVars, serviceVars,
                   recoVars, formVars, batchVars, cartEffect>>

\* App.handleLogout: setUser(null); localStorage.removeItem('user');
\* navigate('/')
Logout ==
    /\ user # NoUser
    /\ user' = NoUser
    /\ savedUser' = NoUser
    /\ Navigate("home")
    /\ UNCHANGED <<cart, placed, orders, order_items, recording, hist,
                   lastSettled, placedCart,
                   searchVars, serviceVars,
                   recoVars, formVars, batchVars, cartEffect>>

(***************************************************************************)
(* Checkout (CheckoutPage.handlePlaceOrder).                               *)
(***************************************************************************)

\* the body without the handling fee
OrderBody_noFee(userId, items, total) ==
    [userId |-> userId, items |-> items, total |-> total]

\* body: JSON.stringify({ userId: user.id, items: cart, total: cartTotal + 2 })
OrderBody(userId, items, total) ==
    [userId |-> userId, items |-> items, total |-> total + HandlingFee]

\* handlePlaceOrder without the test of user: the body is sent with the
\* id of the user, if there is one
handlePlaceOrder_noLoginTest(maxRequests) ==
    /\ route = "checkout"
    /\ Len(cart) > 0
    /\ ~isPlacingOrder
    /\ IF FALSE
       THEN /\ Navigate("auth")
            /\ UNCHANGED placed
       ELSE /\ placed < maxRequests
            /\ isPlacingOrder' = TRUE
            /\ placed' = placed + 1
            /\ requests' = requests \cup
                 { [rid |-> placed + 1,
                    body |-> OrderBody(IF user = NoUser THEN Absent ELSE user,
                                      cart, cartTotal(cart)),
                    status |-> "sent",
                    live |-> TRUE,
                    cartAtPlace |-> cart,
                    orderId |-> Absent] }
            /\ UNCHANGED route
    /\ UNCHANGED <<cart, user, orders, order_items, recording, hist,
                   lastSettled, placedCart,
                   searchVars, serviceVars,
                   recoVars, formVars, batchVars, cartEffect, savedUser>>

\* handlePlaceOrder offered for the empty cart as well
handlePlaceOrder_emptyCart(maxRequests) ==
    /\ route = "checkout"
    /\ ~isPlacingOrder
    /\ IF user = NoUser
       THEN /\ Navigate("auth")
            /\ UNCHANGED placed
       ELSE /\ placed < maxRequests
            /\ isPlacingOrder' = TRUE
            /\ placed' = placed + 1
            /\ requests' = requests \cup
                 { [rid |-> placed + 1,
                    body |-> OrderBody(user, cart, cartTotal(cart)),
                    status |-> "sent",
                    live |-> TRUE,
                    cartAtPlace |-> cart,
                    orderId |-> Absent] }
            /\ UNCHANGED route
    /\ UNCHANGED <<cart, user, orders, order_items, recording, hist,
                   lastSettled, placedCart,
                   searchVars, serviceVars,
                   recoVars, formVars, batchVars, cartEffect, savedUser>>

\* The button is rendered when cart.length > 0 and disabled while
\* isPlacingOrder.  At most maxRequests requests are issued.
handlePlaceOrder(maxRequests) ==
    /\ route = "checkout"
    /\ Len(cart) > 0
    /\ ~isPlacingOrder
    /\ IF user = NoUser
       THEN /\ Navigate("auth")
            /\ UNCHANGED placed
       ELSE /\ placed < maxRequests
            /\ isPlacingOrder' = TRUE
            /\ placed' = placed + 1
            /\ requests' = requests \cup
                 { [rid |-> placed + 1,
                    body |-> OrderBody(user, cart, cartTotal(cart)),
                    status |-> "sent",
                    live |-> TRUE,
                    cartAtPlace |-> cart,
                    orderId |-> Absent] }
            /\ UNCHANGED route
    /\ UNCHANGED <<cart, user, orders, order_items, recording, hist,
                   lastSettled, placedCart,
                   searchVars, serviceVars,
                   recoVars, formVars, batchVars, cartEffect, savedUser>>

PlaceOrder == handlePlaceOrder(MaxPlaced)

\* Place Order where the button can be clicked again
PlaceOrderAgain == handlePlaceOrder(MaxResubmit)

(***************************************************************************)
(* POST /api/orders (src/server.ts).                                       *)
(***************************************************************************)

\* userId || 1: the right operand for every falsy userId, which is
\* undefined (no such field) and also the number 0
OwnerId(userId) ==
    IF userId = Absent \/ userId = 0 THEN SentinelUserId ELSE userId

\* INSERT INTO orders (user_id, total): id by AUTOINCREMENT, status and
\* created_at by DEFAULT
OrderRow(orderId, userId, total) ==
    [id |-> orderId, user_id |-> OwnerId(userId), total |-> total,
     status |-> "pending", created_at |-> clock]

\* ItemRow with the quantity and the price bound to each other's column
ItemRow_swapped(orderId, item) ==
    [order_id |-> orderId, product_id |-> item.id,
     quantity |-> item.price, price |-> item.quantity]

\* insertItem.run(orderId, item.id, item.quantity, item.price)
ItemRow(orderId, item) ==
    [order_id |-> orderId, product_id |-> item.id,
     quantity |-> item.quantity, price |-> item.price]

\* the rows written by the first n iterations of items.forEach
ItemRows(orderId, items, n) ==
    [i \in 1..n |-> ItemRow(orderId, items[i])]

\* what the server reads as req.body.items
SubmittedItems(r) == r.body.items

SetStatus(r, st) == (requests \ {r}) \cup { [r EXCEPT !.status = st] }

\* res.json({ success: true, orderId }), or the 500 of a handler that threw
Answer(r, st, orderId) ==
    (requests \ {r}) \cup { [r EXCEPT !.status = st, !.orderId = orderId] }

\* insertItem.run binds item.id, item.quantity and item.price; it throws
\* for a value that is undefined, that is for an item without the field
Bindable(item) == {"id", "quantity", "price"} \subseteq DOMAIN item

\* the iteration of items.forEach that throws on the items themselves,
\* Len(items) + 1 if none does
FirstThrow(items) ==
    IF \E k \in DOMAIN items : ~Bindable(items[k])
    THEN CHOOSE k \in DOMAIN items :
            /\ ~Bindable(items[k])
            /\ \A j \in 1..(k - 1) : Bindable(items[j])
    ELSE Len(items) + 1

\* The handler runs to its response or to the first statement that throws.
\* failAt = 0: the header insert throws; failAt = k in 1..n: the k-th item
\* insert throws after the header and k-1 rows were written (no enclosing
\* transaction); failAt = n + 1: nothing throws.  A throw is answered 500
\* by express.  An insert throws when the store fails it, and the insert of
\* an item that cannot be bound always throws.
ServerCreateOrder(r, failAt) ==
    LET items   == SubmittedItems(r)
        orderId == Len(orders) + 1
    IN
    /\ r.status = "sent"
    /\ failAt \in 0..(Len(items) + 1)
    /\ failAt <= FirstThrow(items)
    /\ IF failAt = 0
       THEN UNCHANGED <<orders, order_items, placedCart>>
       ELSE /\ orders' = Append(orders,
                           OrderRow(orderId, r.body.userId, r.body.total))
            /\ order_items' = order_items \o
                                ItemRows(orderId, items, failAt - 1)
            /\ placedCart' = Append(placedCart, r.cartAtPlace)
    /\ requests' = IF failAt = Len(items) + 1
                   THEN Answer(r, "ok", orderId)
                   ELSE Answer(r, "fail", Absent)
    /\ UNCHANGED <<cart, user, route, isPlacingOrder, placed, recording,
                   hist, lastSettled,
                   searchVars, serviceVars,
                   recoVars, formVars, batchVars, cartEffect, savedUser>>

\* The request or its response is lost in transport: fetch rejects.
TransportFailure(r) ==
    /\ r.status \in {"sent", "ok", "fail"}
    /\ requests' = SetStatus(r, "reject")
    /\ UNCHANGED <<cart, user, route, isPlacingOrder, placed, orders,
                   order_items, recording, hist, lastSettled, placedCart,
                   searchVars, serviceVars,
                   recoVars, formVars, batchVars, cartEffect, savedUser>>

(***************************************************************************)
(* The continuation of handlePlaceOrder after await fetch(...).            *)
(***************************************************************************)

\* the continuation without the test of res.ok
OrderSettled_noOkTest(r) ==
    /\ r.status \in {"ok", "fail", "reject"}
    /\ IF TRUE
       THEN /\ onOrderSuccess
            /\ route' = "success"
            /\ requests' = IF route = "checkout"
                           THEN Unmounted(requests \ {r})
                           ELSE requests \ {r}
            /\ isPlacingOrder' = FALSE
       ELSE /\ requests' = requests \ {r}
            /\ isPlacingOrder' = IF r.live THEN FALSE ELSE isPlacingOrder
            /\ UNCHANGED <<cart, hist, route, cartEffect>>
    /\ lastSettled' = r.status
    /\ UNCHANGED <<user, placed, orders, order_items, recording,
                   placedCart,
                   searchVars, serviceVars,
                   recoVars, formVars, batchVars, savedUser>>

\* the continuation without the finally block: isPlacingOrder is cleared
\* only on the way to the success page
OrderSettled_noFinally(r) ==
    /\ r.status \in {"ok", "fail", "reject"}
    /\ IF r.status = "ok"
       THEN /\ onOrderSuccess
            /\ route' = "success"
            /\ requests' = IF route = "checkout"
                           THEN Unmounted(requests \ {r})
                           ELSE requests \ {r}
            /\ isPlacingOrder' = FALSE
       ELSE /\ requests' = requests \ {r}
            /\ isPlacingOrder' = isPlacingOrder
            /\ UNCHANGED <<cart, hist, route, cartEffect>>
    /\ lastSettled' = r.status
    /\ UNCHANGED <<user, placed, orders, order_items, recording,
                   placedCart,
                   searchVars, serviceVars,
                   recoVars, formVars, batchVars, savedUser>>

\* if (res.ok) { onOrderSuccess(); navigate('/success'); }
\* finally { setIsPlacingOrder(false); }
OrderSettled(r) ==
    /\ r.status \in {"ok", "fail", "reject"}
    /\ IF r.status = "ok"
       THEN /\ onOrderSuccess
            /\ route' = "success"
            /\ requests' = IF route = "checkout"
                           THEN Unmounted(requests \ {r})
                           ELSE requests \ {r}
            /\ isPlacingOrder' = FALSE
       ELSE /\ requests' = requests \ {r}
            /\ isPlacingOrder' = IF r.live THEN FALSE ELSE isPlacingOrder
            /\ UNCHANGED <<cart, hist, route, cartEffect>>
    /\ lastSettled' = r.status
    /\ UNCHANGED <<user, placed, orders, order_items, recording,
                   placedCart,
                   searchVars, serviceVars,
                   recoVars, formVars, batchVars, savedUser>>

Next ==
    \/ \E product \in Products : AddToCart(product)
    \/ \E productId \in ProductIds : RemoveFromCart(productId)
    \/ ProceedToPay
    \/ GoHome
    \/ GoAuth
    \/ \E u \in UserIds : AuthSuccess(u)
    \/ Logout
    \/ PlaceOrder
    \/ \E r \in requests : \E failAt \in 0..(NumProducts + 1) :
          ServerCreateOrder(r, failAt)
    \/ \E r \in requests : TransportFailure(r)
    \/ \E r \in requests : OrderSettled(r)

Spec == Init /\ [][Next]_vars

\* Every order request is answered or fails in transport, and the
\* continuation of a settled promise is run: the user may stay idle, the
\* network and the event loop do not.
Fairness ==
    /\ WF_vars(\E r \in requests :
                  \/ \E failAt \in 0..(NumProducts + 1) :
                        ServerCreateOrder(r, failAt)
                  \/ r.status = "sent" /\ TransportFailure(r))
    /\ WF_vars(\E r \in requests : OrderSettled(r))

LiveSpec == Init /\ [][Next]_vars /\ Fairness

(***************************************************************************)
(* The cart interface alone: every sequence of addToCart, removeFromCart   *)
(* and clear calls from the empty cart, with the calls recorded.           *)
(***************************************************************************)

CartInit ==
    /\ Mounted
    /\ CatalogLoaded
    /\ user = NoUser
    /\ savedUser = user
    /\ recording = TRUE

CartNext ==
    \/ \E product \in Products : AddToCart(product)
    \/ \E productId \in ProductIds : RemoveFromCart(productId)
    \/ ClearCart

CartSpec == CartInit /\ [][CartNext]_vars

(***************************************************************************)
(* A logged-in session in which Place Order can be clicked again: the      *)
(* cart, the navigation between the home and the checkout page, and the    *)
(* order requests.                                                         *)
(***************************************************************************)

ResubmitInit ==
    /\ Mounted
    /\ CatalogLoaded
    /\ user \in UserIds
    /\ savedUser = user
    /\ recording = FALSE

ResubmitNext ==
    \/ \E product \in Products : AddToCart(product)
    \/ \E productId \in ProductIds : RemoveFromCart(productId)
    \/ ProceedToPay
    \/ GoHome
    \/ PlaceOrderAgain
    \/ \E r \in requests : \E failAt \in 0..(NumProducts + 1) :
          ServerCreateOrder(r, failAt)
    \/ \E r \in requests : TransportFailure(r)
    \/ \E r \in requests : OrderSettled(r)

ResubmitSpec == ResubmitInit /\ [][ResubmitNext]_vars

(***************************************************************************)
(* POST /api/orders and GET /api/orders/user/:userId called by any client  *)
(* of the server (src/server.ts).                                          *)
(***************************************************************************)

\* an item of a request body, with the price the catalog has now
Line(id, quantity) ==
    [id |-> id, price |-> catalogPrice[id], quantity |-> quantity]

\* req.body of POST /api/orders: { userId, items, total }
ApiBody(userId, items, total) ==
    [userId |-> userId, items |-> items, total |-> total]

\* the userId of a body: no such field, 0, or the id of a user other than
\* user 1
ApiUserIds == {Absent, 0, NumUsers + 1}

\* the items of a body: none, one line, two lines, and two lines of which
\* the second has no price
ApiItemLists ==
    { << >>,
      <<Line(1, 1)>>,
      <<Line(2, 1)>>,
      <<Line(1, MaxQty), Line(2, 1)>>,
      <<Line(1, 1), [id |-> 2, quantity |-> 1]>> }

\* the total of a body: the handling fee on the amounts of its first items
ApiTotal(items) ==
    cartTotal(SubSeq(items, 1, FirstThrow(items) - 1)) + HandlingFee

\* a client sends POST /api/orders with the body
SubmitOrder(body) ==
    /\ placed < MaxPosted
    /\ placed' = placed + 1
    /\ requests' = requests \cup
         { [rid |-> placed + 1,
            body |-> body,
            status |-> "sent",
            live |-> FALSE,
            cartAtPlace |-> body.items,
            orderId |-> Absent] }
    /\ UNCHANGED <<cart, user, route, isPlacingOrder, orders, order_items,
                   recording, hist, lastSettled, placedCart,
                   searchVars, serviceVars,
                   recoVars, formVars, batchVars, cartEffect, savedUser>>

\* one second passes on the clock of the store
Tick ==
    /\ clock < MaxClock
    /\ clock' = clock + 1
    /\ UNCHANGED <<cart, user, route, isPlacingOrder, requests, placed,
                   orders, order_items, recording, hist, lastSettled,
                   placedCart, searchVars, users, catalogPrice, listing,
                   authReply,
                   recoVars, formVars, batchVars, cartEffect, savedUser>>

\* the prices a product is given
PricesOf(id) == { SeedPrice[id], SeedPrice[id] + 5 }

\* PriceChanged that carries the new price into the rows of past orders
PriceChanged_cascade(id, price) ==
    /\ price # catalogPrice[id]
    /\ catalogPrice' = [catalogPrice EXCEPT ![id] = price]
    /\ order_items' = [k \in DOMAIN order_items |->
                         IF order_items[k].product_id = id
                         THEN [order_items[k] EXCEPT !.price = price]
                         ELSE order_items[k]]
    /\ UNCHANGED <<cart, user, route, isPlacingOrder, requests, placed,
                   orders, recording, hist, lastSettled,
                   placedCart, searchVars, users, clock, listing,
                   authReply,
                   recoVars, formVars, batchVars, cartEffect, savedUser>>

\* The price of a product is changed in the products table.  The server
\* writes the table only to seed it, so the change comes from outside.
PriceChanged(id, price) ==
    /\ price # catalogPrice[id]
    /\ catalogPrice' = [catalogPrice EXCEPT ![id] = price]
    /\ UNCHANGED <<cart, user, route, isPlacingOrder, requests, placed,
                   orders, order_items, recording, hist, lastSettled,
                   placedCart, searchVars, users, clock, listing,
                   authReply,
                   recoVars, formVars, batchVars, cartEffect, savedUser>>

\* SELECT * FROM orders WHERE user_id = ?, in rowid order
OrdersOf(userId) ==
    SelectSeq(orders, LAMBDA row : row.user_id = userId)

\* the orders of rows one by one in some order
Arrangements(rows) ==
    LET n == Len(rows)
        bijections == { f \in [1..n -> 1..n] :
                          \A i, j \in 1..n : i # j => f[i] # f[j] }
    IN  { [i \in 1..n |-> rows[f[i]]] : f \in bijections }

\* ORDER BY created_at DESC: the rows with a later created_at come first;
\* the order of rows with the same created_at is whatever the sort leaves.
OrderByCreatedAtDesc(rows) ==
    { s \in Arrangements(rows) :
        \A i, j \in DOMAIN s : i < j => s[i].created_at >= s[j].created_at }

\* GET /api/orders/user/:userId
ListOrders(userId) ==
    /\ \E s \in OrderByCreatedAtDesc(OrdersOf(userId)) :
          listing' = [userId |-> userId, rows |-> s]
    /\ UNCHANGED <<cart, user, route, isPlacingOrder, requests, placed,
                   orders, order_items, recording, hist, lastSettled,
                   placedCart, searchVars, users, catalogPrice, clock,
                   authReply,
                   recoVars, formVars, batchVars, cartEffect, savedUser>>

\* the store and the client state before any request
ServiceInit ==
    /\ Mounted
    /\ CatalogLoaded
    /\ user = NoUser
    /\ savedUser = user
    /\ recording = FALSE

OrderNext ==
    \/ \E userId \in ApiUserIds : \E items \in ApiItemLists :
          SubmitOrder(ApiBody(userId, items, ApiTotal(items)))
    \/ \E r \in requests : \E failAt \in 0..(NumProducts + 1) :
          ServerCreateOrder(r, failAt)

OrderSpec == ServiceInit /\ [][OrderNext]_vars

\* Orders of single lines over time: the clock advances, prices change and
\* the orders of a user are listed.
HistoryNext ==
    \/ \E userId \in 1..(NumUsers + 1) : \E id \in ProductIds :
          SubmitOrder(ApiBody(userId, <<Line(id, 1)>>,
                              catalogPrice[id] + HandlingFee))
    \/ \E r \in requests : \E failAt \in 0..(NumProducts + 1) :
          ServerCreateOrder(r, failAt)
    \/ Tick
    \/ \E id \in ProductIds : \E price \in PricesOf(id) :
          PriceChanged(id, price)
    \/ \E userId \in 1..(NumUsers + 1) : ListOrders(userId)

HistorySpec == ServiceInit /\ [][HistoryNext]_vars

\* Orders of single lines of user 1 while the prices change.
PriceNext ==
    \/ \E id \in ProductIds :
          SubmitOrder(ApiBody(1, <<Line(id, 1)>>,
                              catalogPrice[id] + HandlingFee))
    \/ \E r \in requests : \E failAt \in 0..(NumProducts + 1) :
          ServerCreateOrder(r, failAt)
    \/ \E id \in ProductIds : \E price \in PricesOf(id) :
          PriceChanged(id, price)

PriceSpec == ServiceInit /\ [][PriceNext]_vars

(***************************************************************************)
(* POST /api/register and POST /api/login called by any client.            *)
(* authReply holds the response and, as history, the call it answers and   *)
(* the users table the call found.                                         *)
(***************************************************************************)

\* the emails, passwords and names of the calls; TEXT values are compared
\* byte by byte, so values that differ in case only are different values
Emails == {"ann@x.in", "Ann@x.in", "bob@x.in"}

Passwords == {"pw", "PW"}

Names == {"Ann"}

\* SELECT id, email, name FROM users
PublicUser(row) == [id |-> row.id, email |-> row.email, name |-> row.name]

\* a response of one of the two endpoints, with the call and the table
Reply(op, email, password, status, success, found, message) ==
    [call |-> [op |-> op, email |-> email, password |-> password],
     before |-> users,
     status |-> status, success |-> success, user |-> found,
     message |-> message]

\* Register on a table without the UNIQUE constraint on email
Register_noUnique(email, password, name, fault) ==
    LET row == [id |-> Len(users) + 1, email |-> email,
                password |-> password, name |-> name]
    IN
    /\ IF fault
       THEN /\ authReply' = Reply("register", email, password, 500, FALSE,
                                  << >>, "Server error")
            /\ UNCHANGED users
       ELSE /\ users' = Append(users, row)
            /\ authReply' = Reply("register", email, password, 200, TRUE,
                                  <<PublicUser(row)>>, "")
    /\ UNCHANGED <<cart, user, route, isPlacingOrder, requests, placed,
                   orders, order_items, recording, hist, lastSettled,
                   placedCart, searchVars, catalogPrice, clock, listing,
                   recoVars, formVars, batchVars, cartEffect, savedUser>>

\* Register as an upsert: the row that has the email is overwritten
Register_upsert(email, password, name, fault) ==
    LET row == [id |-> Len(users) + 1, email |-> email,
                password |-> password, name |-> name]
    IN
    /\ IF fault
       THEN /\ authReply' = Reply("register", email, password, 500, FALSE,
                                  << >>, "Server error")
            /\ UNCHANGED users
       ELSE IF \E i \in DOMAIN users : users[i].email = email
       THEN LET i == CHOOSE k \in DOMAIN users : users[k].email = email
                kept == [row EXCEPT !.id = i]
            IN  /\ users' = [users EXCEPT ![i] = kept]
                /\ authReply' = Reply("register", email, password, 200,
                                      TRUE, <<PublicUser(kept)>>, "")
       ELSE /\ users' = Append(users, row)
            /\ authReply' = Reply("register", email, password, 200, TRUE,
                                  <<PublicUser(row)>>, "")
    /\ UNCHANGED <<cart, user, route, isPlacingOrder, requests, placed,
                   orders, order_items, recording, hist, lastSettled,
                   placedCart, searchVars, catalogPrice, clock, listing,
                   recoVars, formVars, batchVars, cartEffect, savedUser>>

\* POST /api/register.  The insert throws "UNIQUE constraint failed" when a
\* row has the email; fault: it throws something else.
Register(email, password, name, fault) ==
    LET row == [id |-> Len(users) + 1, email |-> email,
                password |-> password, name |-> name]
    IN
    /\ IF fault
       THEN /\ authReply' = Reply("register", email, password, 500, FALSE,
                                  << >>, "Server error")
            /\ UNCHANGED users
       ELSE IF \E i \in DOMAIN users : users[i].email = email
       THEN /\ authReply' = Reply("register", email, password, 400, FALSE,
                                  << >>, "Email already exists")
            /\ UNCHANGED users
       ELSE /\ users' = Append(users, row)
            /\ authReply' = Reply("register", email, password, 200, TRUE,
                                  <<PublicUser(row)>>, "")
    /\ UNCHANGED <<cart, user, route, isPlacingOrder, requests, placed,
                   orders, order_items, recording, hist, lastSettled,
                   placedCart, searchVars, catalogPrice, clock, listing,
                   recoVars, formVars, batchVars, cartEffect, savedUser>>

\* Login whose query leaves the password out
Login_emailOnly(email, password) ==
    LET found == SelectSeq(users, LAMBDA row : row.email = email)
    IN
    /\ authReply' =
          IF found # << >>
          THEN Reply("login", email, password, 200, TRUE,
                     <<PublicUser(found[1])>>, "")
          ELSE Reply("login", email, password, 401, FALSE, << >>,
                     "Invalid email or password")
    /\ UNCHANGED <<cart, user, route, isPlacingOrder, requests, placed,
                   orders, order_items, recording, hist, lastSettled,
                   placedCart, searchVars, users, catalogPrice, clock,
                   listing,
                   recoVars, formVars, batchVars, cartEffect, savedUser>>

\* POST /api/login: .get() is the first row WHERE email = ? AND password = ?
Login(email, password) ==
    LET found == SelectSeq(users, LAMBDA row :
                     row.email = email /\ row.password = password)
    IN
    /\ authReply' =
          IF found # << >>
          THEN Reply("login", email, password, 200, TRUE,
                     <<PublicUser(found[1])>>, "")
          ELSE Reply("login", email, password, 401, FALSE, << >>,
                     "Invalid email or password")
    /\ UNCHANGED <<cart, user, route, isPlacingOrder, requests, placed,
                   orders, order_items, recording, hist, lastSettled,
                   placedCart, searchVars, users, catalogPrice, clock,
                   listing,
                   recoVars, formVars, batchVars, cartEffect, savedUser>>

UserNext ==
    \/ \E email \in Emails : \E password \in Passwords :
          \E name \in Names : \E fault \in BOOLEAN :
             Register(email, password, name, fault)
    \/ \E email \in Emails : \E password \in Passwords :
          Login(email, password)

UserSpec == ServiceInit /\ [][UserNext]_vars

\* The accounts while orders are created: register and login calls of any
\* client between the order requests of user 1 for one unit of product 1.
AccountNext ==
    \/ \E email \in Emails : \E password \in Passwords :
          \E name \in Names : \E fault \in BOOLEAN :
             Register(email, password, name, fault)
    \/ \E email \in Emails : \E password \in Passwords :
          Login(email, password)
    \/ SubmitOrder(ApiBody(1, <<Line(1, 1)>>,
                           catalogPrice[1] + HandlingFee))
    \/ \E r \in requests : \E failAt \in 0..(NumProducts + 1) :
          ServerCreateOrder(r, failAt)

AccountSpec == ServiceInit /\ [][AccountNext]_vars

(***************************************************************************)
(* The product search of HomePage (filteredProducts and the product grid). *)
(* Strings are sequences of characters.                                    *)
(***************************************************************************)

UpperCase == <<"A", "B", "C", "D", "E", "F", "G", "H", "I", "J", "K", "L",
               "M", "N", "O", "P", "Q", "R", "S", "T", "U", "V", "W", "X",
               "Y", "Z">>

LowerCase == <<"a", "b", "c", "d", "e", "f", "g", "h", "i", "j", "k", "l",
               "m", "n", "o", "p", "q", "r", "s", "t", "u", "v", "w", "x",
               "y", "z">>

\* String.prototype.toLowerCase
toLowerCase(str) ==
    [i \in DOMAIN str |->
        IF \E n \in DOMAIN UpperCase : UpperCase[n] = str[i]
        THEN LowerCase[CHOOSE n \in DOMAIN UpperCase : UpperCase[n] = str[i]]
        ELSE str[i]]

\* String.prototype.includes: the search for sub in str from a position on
RECURSIVE includesFrom(_, _, _)
includesFrom(str, sub, from) ==
    IF from + Len(sub) - 1 > Len(str) THEN FALSE
    ELSE IF SubSeq(str, from, from + Len(sub) - 1) = sub THEN TRUE
    ELSE includesFrom(str, sub, from + 1)

includes(str, sub) == includesFrom(str, sub, 1)

\* filteredProducts that compares the query as it was typed
filteredProducts_caseSensitive(prods, query, category) ==
    SelectSeq(prods, LAMBDA p :
        LET matchesSearch ==
                \/ includes(toLowerCase(p.name), query)
                \/ includes(toLowerCase(p.category), query)
            matchesCategory == category = All \/ p.category = category
        IN  matchesSearch /\ matchesCategory)

\* HomePage: filteredProducts
filteredProducts(prods, query, category) ==
    SelectSeq(prods, LAMBDA p :
        LET matchesSearch ==
                \/ includes(toLowerCase(p.name), toLowerCase(query))
                \/ includes(toLowerCase(p.category), toLowerCase(query))
            matchesCategory == category = All \/ p.category = category
        IN  matchesSearch /\ matchesCategory)

\* HomePage: categories, the buttons of the category bar
categories(prods) == {All} \cup { prods[i].category : i \in DOMAIN prods }

\* the product grid without the branch for an empty result
ProductGrid_noEmptyState(isLoading, filtered) ==
    IF isLoading THEN "loading" ELSE "products"

\* HomePage, product grid: the placeholders while loading, the products,
\* or "No products found"
ProductGrid(isLoading, filtered) ==
    IF isLoading THEN "loading"
    ELSE IF Len(filtered) > 0 THEN "products"
    ELSE "No products found"

\* the characters typed into the search box
QueryChars == {"a", "A", "d", "D", "b", "z", " "}

\* the sequences over chars of a length up to n
RECURSIVE StringsUpTo(_, _)
StringsUpTo(chars, n) ==
    IF n = 0 THEN { << >> }
    ELSE LET shorter == StringsUpTo(chars, n - 1) IN
         shorter \cup { Append(str, c) : str \in shorter, c \in chars }

Queries == StringsUpTo(QueryChars, MaxQueryLen)

\* fetchProducts settles: setProducts(data) if it resolved, setLoading(false)
FetchProducts(resolved) ==
    /\ loading
    /\ products' = IF resolved THEN Catalog ELSE products
    /\ loading' = FALSE
    /\ UNCHANGED <<cart, user, route, isPlacingOrder, requests, placed,
                   orders, order_items, recording, hist, lastSettled,
                   placedCart, searchQuery, activeCategory, serviceVars,
                   recoVars, formVars, batchVars, cartEffect, savedUser>>

\* the search box of the header: onChange
SetSearchQuery(query) ==
    /\ searchQuery' = query
    /\ UNCHANGED <<cart, user, route, isPlacingOrder, requests, placed,
                   orders, order_items, recording, hist, lastSettled,
                   placedCart, products, loading, activeCategory,
                   serviceVars,
                   recoVars, formVars, batchVars, cartEffect, savedUser>>

\* a button of the category bar
SetActiveCategory(category) ==
    /\ route = "home"
    /\ category \in categories(products)
    /\ activeCategory' = category
    /\ UNCHANGED <<cart, user, route, isPlacingOrder, requests, placed,
                   orders, order_items, recording, hist, lastSettled,
                   placedCart, products, loading, searchQuery, serviceVars,
                   recoVars, formVars, batchVars, cartEffect, savedUser>>

\* the App right after its mount: the catalog is being fetched
SearchInit ==
    /\ Mounted
    /\ products = << >>
    /\ loading = TRUE
    /\ user = NoUser
    /\ savedUser = user
    /\ recording = FALSE

SearchNext ==
    \/ \E resolved \in BOOLEAN : FetchProducts(resolved)
    \/ \E query \in Queries : SetSearchQuery(query)
    \/ \E category \in categories(Catalog) : SetActiveCategory(category)

SearchSpec == SearchInit /\ [][SearchNext]_vars

(***************************************************************************)
(* AI suggestions (App: useEffect(..., [cart]) and getAiRecommendations).  *)
(* The effect runs after the render that follows a setCart, before the     *)
(* next event is handled.  Each call is a promise of its own: the calls    *)
(* settle in any order.                                                    *)
(***************************************************************************)

\* the position of the first sep in str, 0 if there is none
FirstIndexOf(str, sep) ==
    IF \E k \in DOMAIN str : str[k] = sep
    THEN CHOOSE k \in DOMAIN str :
            /\ str[k] = sep
            /\ \A j \in 1..(k - 1) : str[j] # sep
    ELSE 0

\* String.prototype.split(sep) for a separator of one character: the
\* pieces between the separators, [''] for the empty string
RECURSIVE split(_, _)
split(str, sep) ==
    LET k == FirstIndexOf(str, sep) IN
    IF k = 0 THEN <<str>>
    ELSE <<SubSeq(str, 1, k - 1)>> \o split(SubSeq(str, k + 1, Len(str)), sep)

\* String.prototype.trim: without the spaces at both ends
RECURSIVE trim(_)
trim(str) ==
    IF str = << >> THEN str
    ELSE IF str[1] = " " THEN trim(Tail(str))
    ELSE IF str[Len(str)] = " " THEN trim(SubSeq(str, 1, Len(str) - 1))
    ELSE str

\* the responses of ai.models.generateContent: without a text, with the
\* empty text, with one name, with names separated by a comma and a space
Responses ==
    { [finishReason |-> "SAFETY"],
      [text |-> << >>],
      [text |-> <<"J", "a", "m">>],
      [text |-> <<"J", "a", "m", ",", " ", "E", "g", "g", "s">>] }

\* response.text?.split(',').map(s => s.trim()) || []
suggestionsOf(response) ==
    IF "text" \in DOMAIN response
    THEN LET pieces == split(response.text, ",") IN
         [i \in DOMAIN pieces |-> trim(pieces[i])]
    ELSE << >>

\* calls without its k-th element
WithoutCall(calls, k) ==
    [i \in 1..(Len(calls) - 1) |-> IF i < k THEN calls[i] ELSE calls[i + 1]]

\* getAiRecommendations up to its await: the prompt is made of the cart of
\* the render the function belongs to
getAiRecommendations ==
    /\ recCalls' = Append(recCalls, [cart |-> cart])
    /\ UNCHANGED aiRecommendations

\* useEffect(() => { if (cart.length > 0) getAiRecommendations();
\* else setAiRecommendations([]); }, [cart])
CartEffect ==
    /\ cartEffect
    /\ cartEffect' = FALSE
    /\ IF Len(cart) > 0
       THEN getAiRecommendations
       ELSE /\ aiRecommendations' = << >>
            /\ UNCHANGED recCalls
    /\ UNCHANGED <<cart, user, route, isPlacingOrder, requests, placed,
                   orders, order_items, recording, hist, lastSettled,
                   placedCart, searchVars, serviceVars, savedUser,
                   formVars, batchVars>>

\* the continuation of getAiRecommendations after await, the k-th pending
\* call resolved: setAiRecommendations(suggestions)
RecommendationResolved(k, response) ==
    /\ k \in DOMAIN recCalls
    /\ aiRecommendations' = suggestionsOf(response)
    /\ recCalls' = WithoutCall(recCalls, k)
    /\ UNCHANGED <<cart, user, route, isPlacingOrder, requests, placed,
                   orders, order_items, recording, hist, lastSettled,
                   placedCart, searchVars, serviceVars, cartEffect,
                   savedUser, formVars, batchVars>>

\* the k-th pending call rejected, or the construction of the client threw:
\* catch (err) { console.error('AI Recommendation failed', err); }
RecommendationFailed(k) ==
    /\ k \in DOMAIN recCalls
    /\ recCalls' = WithoutCall(recCalls, k)
    /\ UNCHANGED <<cart, user, route, isPlacingOrder, requests, placed,
                   orders, order_items, recording, hist, lastSettled,
                   placedCart, searchVars, serviceVars, aiRecommendations,
                   cartEffect, savedUser, formVars, batchVars>>

\* no effect is due: the last render has run its effects
Ready == ~cartEffect

\* one more call can be pending
Room == Len(recCalls) < MaxRecCalls

\* a logged-in session
SessionInit ==
    /\ Mounted
    /\ CatalogLoaded
    /\ user \in UserIds
    /\ savedUser = user
    /\ recording = FALSE

\* The cart with its suggestions, and the way to the checkout page.
RecNext ==
    \/ CartEffect
    \/ Ready /\ Room /\ \E product \in Products : AddToCart(product)
    \/ Ready /\ Room /\ \E productId \in ProductIds :
          RemoveFromCart(productId)
    \/ Ready /\ \E k \in 1..MaxRecCalls : \E response \in Responses :
          RecommendationResolved(k, response)
    \/ Ready /\ \E k \in 1..MaxRecCalls : RecommendationFailed(k)
    \/ Ready /\ ProceedToPay
    \/ Ready /\ GoHome
    \/ Ready /\ PlaceOrder

RecSpec == SessionInit /\ [][RecNext]_vars


(***************************************************************************)
(* The form of AuthPage (AuthPage.handleSubmit) against POST /api/register *)
(* and POST /api/login.  authReply is the response of the call the form    *)
(* is waiting for; NoReply until the server has answered it.               *)
(***************************************************************************)

\* handleSubmit up to its await, with the fields as they were filled in:
\* setError(''); setLoading(true); fetch(endpoint, ...).  The button is
\* disabled while loading.
SubmitAuth(isLogin, email, password, name) ==
    /\ route = "auth"
    /\ ~authLoading
    /\ authForm' = [isLogin |-> isLogin, email |-> email,
                    password |-> password, name |-> name]
    /\ authError' = ""
    /\ authLoading' = TRUE
    /\ authReply' = NoReply
    /\ UNCHANGED <<cart, user, route, isPlacingOrder, requests, placed,
                   orders, order_items, recording, hist, lastSettled,
                   placedCart, searchVars, users, catalogPrice, clock,
                   listing, recoVars, cartEffect, savedUser, batchVars>>

\* the server handles the call of the form: /api/login if isLogin,
\* /api/register otherwise
ServeAuth(fault) ==
    /\ authLoading
    /\ authReply = NoReply
    /\ IF authForm.isLogin
       THEN ~fault /\ Login(authForm.email, authForm.password)
       ELSE Register(authForm.email, authForm.password, authForm.name, fault)

\* data.message || 'Authentication failed'
errorMessage(data) ==
    IF data.message # "" THEN data.message ELSE "Authentication failed"

\* the continuation that sets no error when the call was refused
AuthSettled_silent ==
    /\ authLoading
    /\ authReply # NoReply
    /\ IF authReply.success
       THEN /\ handleAuthSuccess(authReply.user[1].id)
            /\ Navigate("home")
            /\ UNCHANGED authError
       ELSE UNCHANGED <<user, savedUser, route, isPlacingOrder, requests,
                        authError>>
    /\ authLoading' = FALSE
    /\ UNCHANGED <<cart, placed, orders, order_items, recording, hist,
                   lastSettled, placedCart, searchVars, serviceVars,
                   recoVars, cartEffect, authForm, batchVars>>

\* the continuation of handleSubmit after await res.json():
\* if (data.success) { onAuthSuccess(data.user); navigate('/'); }
\* else { setError(data.message || 'Authentication failed'); }
\* finally { setLoading(false); }
AuthSettled ==
    /\ authLoading
    /\ authReply # NoReply
    /\ IF authReply.success
       THEN /\ handleAuthSuccess(authReply.user[1].id)
            /\ Navigate("home")
            /\ UNCHANGED authError
       ELSE /\ authError' = errorMessage(authReply)
            /\ UNCHANGED <<user, savedUser, route, isPlacingOrder, requests>>
    /\ authLoading' = FALSE
    /\ UNCHANGED <<cart, placed, orders, order_items, recording, hist,
                   lastSettled, placedCart, searchVars, serviceVars,
                   recoVars, cartEffect, authForm, batchVars>>

\* fetch rejects, before or after the server handled the call, or the body
\* of the response is not JSON:
\* catch (err) { setError('Something went wrong. Please try again.'); }
\* finally { setLoading(false); }
AuthRejected ==
    /\ authLoading
    /\ authError' = "Something went wrong. Please try again."
    /\ authLoading' = FALSE
    /\ UNCHANGED <<cart, user, route, isPlacingOrder, requests, placed,
                   orders, order_items, recording, hist, lastSettled,
                   placedCart, searchVars, serviceVars, recoVars,
                   cartEffect, savedUser, authForm, batchVars>>

AuthNext ==
    \/ GoAuth
    \/ \E isLogin \in BOOLEAN : \E email \in Emails :
          \E password \in Passwords : \E name \in Names :
             SubmitAuth(isLogin, email, password, name)
    \/ \E fault \in BOOLEAN : ServeAuth(fault)
    \/ AuthSettled
    \/ AuthRejected
    \/ Logout

AuthSpec == ServiceInit /\ [][AuthNext]_vars

(***************************************************************************)
(* Cart updates dispatched back to back (App.addToCart, removeFromCart).   *)
(* A handler passes setCart an updater function; the updaters dispatched   *)
(* before the next render wait in a queue, and the render computes the new *)
(* cart by calling them in the order of dispatch, each on the result of    *)
(* the one before.                                                         *)
(***************************************************************************)

\* the row of the catalog the Add button of product id passes to addToCart
ProductOf(id) == CHOOSE product \in Products : product.id = id

\* the updater function of addToCart(product) or removeFromCart(productId),
\* called with prev
applyUpdater(updater, prev) ==
    IF updater.op = "add"
    THEN addToCart(prev, ProductOf(updater.id))
    ELSE removeFromCart(prev, updater.id)

RECURSIVE reduceUpdaters(_, _)
reduceUpdaters(prev, queue) ==
    IF queue = << >> THEN prev
    ELSE reduceUpdaters(applyUpdater(queue[1], prev), Tail(queue))

\* the queue processed with every updater called on the cart of the render
\* that dispatched it, as setCart(newValue) computed from cart would be
processUpdateQueue_closure(prev, queue) ==
    IF queue = << >> THEN prev
    ELSE applyUpdater(queue[Len(queue)], prev)

\* the state of cart after the queued setCart(prev => ...) calls
processUpdateQueue(prev, queue) == reduceUpdaters(prev, queue)

\* addToCart(product) before the render: setCart(prev => ...) is queued
DispatchAddToCart(product) ==
    /\ Len(updateQueue) < MaxBatch
    /\ QuantityOf(processUpdateQueue(cart, updateQueue), product.id) < MaxQty
    /\ updateQueue' = Append(updateQueue, [op |-> "add", id |-> product.id])
    /\ flushed' = NoFlush
    /\ UNCHANGED <<cart, user, route, isPlacingOrder, requests, placed,
                   orders, order_items, recording, hist, lastSettled,
                   placedCart, searchVars, serviceVars, recoVars,
                   cartEffect, savedUser, formVars>>

\* removeFromCart(productId) before the render: setCart(prev => ...) is
\* queued
DispatchRemoveFromCart(productId) ==
    /\ Len(updateQueue) < MaxBatch
    /\ updateQueue' = Append(updateQueue, [op |-> "remove", id |-> productId])
    /\ flushed' = NoFlush
    /\ UNCHANGED <<cart, user, route, isPlacingOrder, requests, placed,
                   orders, order_items, recording, hist, lastSettled,
                   placedCart, searchVars, serviceVars, recoVars,
                   cartEffect, savedUser, formVars>>

\* the render that follows: the queue is processed, the effect that depends
\* on [cart] is scheduled
RenderCart ==
    /\ updateQueue # << >>
    /\ cart' = processUpdateQueue(cart, updateQueue)
    /\ updateQueue' = << >>
    /\ flushed' = [base |-> cart, updates |-> updateQueue]
    /\ cartEffect' = TRUE
    /\ UNCHANGED <<user, route, isPlacingOrder, requests, placed,
                   orders, order_items, recording, hist, lastSettled,
                   placedCart, searchVars, serviceVars, recoVars,
                   savedUser, formVars>>

BatchNext ==
    \/ \E product \in Products : DispatchAddToCart(product)
    \/ \E productId \in ProductIds : DispatchRemoveFromCart(productId)
    \/ RenderCart

BatchSpec == ServiceInit /\ [][BatchNext]_vars


(***************************************************************************)
(* Properties of the cart interface, under CartSpec.                       *)
(***************************************************************************)

HasLine(c, id) == \E i \in DOMAIN c : c[i].id = id

\* c without its k-th line
WithoutLine(c, k) ==
    [i \in 1..(Len(c) - 1) |-> IF i < k THEN c[i] ELSE c[i + 1]]

\* the price of a product in the catalog
PriceOf(id) == (CHOOSE p \in Products : p.id = id).price

\* the last recorded call is op
LastIs(op) == hist # << >> /\ hist[1].op = op

\* C1: the cart never holds two lines with the same product id, and every
\* line has quantity >= 1.
C1_CartInvariant ==
    /\ \A i, j \in DOMAIN cart : i # j => cart[i].id # cart[j].id
    /\ \A i \in DOMAIN cart : cart[i].quantity >= 1

\* a cart filled again after a clear: two lines, one of them added twice
C1_Witness ==
    /\ Len(hist) = 2
    /\ hist[2].op = "clear"
    /\ hist[2].cart # << >>
    /\ hist[1].op = "add"
    /\ Len(hist[2].cart) >= 2
    /\ \E i \in DOMAIN hist[2].cart : hist[2].cart[i].quantity >= 2

\* C2: addToCart(product) on a cart with a line for product.id raises that
\* line's quantity by exactly 1 and creates no line; on a cart without one
\* it inserts exactly one line for product.id, with quantity 1.  Every
\* other line is left as it was.
C2_AddLine ==
    LastIs("add") =>
        LET before == hist[1].cart
            id     == hist[1].id
        IN
        IF HasLine(before, id)
        THEN /\ Len(cart) = Len(before)
             /\ \A i \in DOMAIN before :
                  /\ cart[i].id = before[i].id
                  /\ cart[i].price = before[i].price
                  /\ cart[i].quantity =
                       IF before[i].id = id
                       THEN before[i].quantity + 1
                       ELSE before[i].quantity
        ELSE /\ Len(cart) = Len(before) + 1
             /\ \A i \in DOMAIN before : cart[i] = before[i]
             /\ cart[Len(cart)] = [id |-> id, price |-> PriceOf(id),
                                   quantity |-> 1]

\* an add that found its line, in a cart that holds a second line
C2_Witness ==
    /\ LastIs("add")
    /\ HasLine(hist[1].cart, hist[1].id)
    /\ Len(cart) >= 2

\* C3: removeFromCart(productId) on a line with quantity > 1 lowers the
\* quantity by exactly 1 and keeps the line; on a line with quantity 1 it
\* deletes the line.  Every other line is left as it was.
C3_RemoveLine ==
    (LastIs("remove") /\ HasLine(hist[1].cart, hist[1].id)) =>
        LET before == hist[1].cart
            id     == hist[1].id
            k      == CHOOSE i \in DOMAIN before : before[i].id = id
        IN
        IF before[k].quantity > 1
        THEN /\ Len(cart) = Len(before)
             /\ \A i \in DOMAIN before :
                  /\ cart[i].id = before[i].id
                  /\ cart[i].price = before[i].price
                  /\ cart[i].quantity =
                       IF i = k THEN before[i].quantity - 1
                       ELSE before[i].quantity
        ELSE /\ cart = WithoutLine(before, k)
             /\ ~HasLine(cart, id)

\* the last unit of a product was removed while another line stays
C3_Witness ==
    /\ LastIs("remove")
    /\ QuantityOf(hist[1].cart, hist[1].id) = 1
    /\ Len(cart) >= 1

\* C4: removeFromCart of a product id without a line leaves the cart as it
\* was, and no line of quantity <= 0 appears.
C4_RemoveAbsent ==
    (LastIs("remove") /\ ~HasLine(hist[1].cart, hist[1].id)) =>
        /\ cart = hist[1].cart
        /\ \A i \in DOMAIN cart : cart[i].quantity >= 1

\* a removal of a product without a line, on a cart that holds other lines
C4_Witness ==
    /\ LastIs("remove")
    /\ ~HasLine(hist[1].cart, hist[1].id)
    /\ Len(cart) >= 1

\* addToCart(p) directly followed by removeFromCart(p.id)
AddThenRemove ==
    /\ Len(hist) = 2
    /\ hist[2].op = "add"
    /\ hist[1].op = "remove"
    /\ hist[1].id = hist[2].id

\* C5: addToCart(p) followed by removeFromCart(p.id) gives back the cart
\* that was there before the add, lines and quantities.
C5_RoundTrip ==
    AddThenRemove => cart = hist[2].cart

\* the round trip on a product that already had a line, next to another line
C5_Witness ==
    /\ AddThenRemove
    /\ HasLine(hist[2].cart, hist[2].id)
    /\ Len(cart) >= 2

\* the sum of price x quantity over the lines of c with an index in idx
RECURSIVE SumAmounts(_, _)
SumAmounts(c, idx) ==
    IF idx = {} THEN 0
    ELSE LET i == CHOOSE k \in idx : TRUE IN
         c[i].price * c[i].quantity + SumAmounts(c, idx \ {i})

\* the sum of the quantities of the lines of c with an index in idx
RECURSIVE SumQuantities(_, _)
SumQuantities(c, idx) ==
    IF idx = {} THEN 0
    ELSE LET i == CHOOSE k \in idx : TRUE IN
         c[i].quantity + SumQuantities(c, idx \ {i})

\* C6: cartTotal is the sum of price x quantity over the lines and cartCount
\* the sum of the quantities; both are 0 for the empty cart and cartTotal is
\* never negative.
C6_Totals ==
    /\ cartTotal(cart) = SumAmounts(cart, DOMAIN cart)
    /\ cartCount(cart) = SumQuantities(cart, DOMAIN cart)
    /\ cart = << >> => cartTotal(cart) = 0 /\ cartCount(cart) = 0
    /\ cartTotal(cart) >= 0

\* two lines of different prices, one with quantity 2
C6_Witness ==
    /\ Len(cart) >= 2
    /\ \E i \in DOMAIN cart : cart[i].quantity >= 2
    /\ \E i, j \in DOMAIN cart : cart[i].price # cart[j].price

\* C7: an add raises cartCount by 1 and cartTotal by the product's unit
\* price; a remove of a product with a line lowers them by as much.  From
\* the empty cart, add(product 1, price 33), add, remove, remove gives
\* totals 33, 66, 33, 0 and counts 1, 2, 1, 0.
C7_Deltas ==
    /\ LastIs("add") =>
        /\ cartCount(cart) = cartCount(hist[1].cart) + 1
        /\ cartTotal(cart) = cartTotal(hist[1].cart) + PriceOf(hist[1].id)
    /\ (LastIs("remove") /\ HasLine(hist[1].cart, hist[1].id)) =>
        /\ cartCount(cart) = cartCount(hist[1].cart) - 1
        /\ cartTotal(cart) = cartTotal(hist[1].cart) - PriceOf(hist[1].id)
    /\ (LastIs("add") /\ hist[1].id = 1 /\ hist[1].cart = << >>) =>
        cartTotal(cart) = 33 /\ cartCount(cart) = 1
    /\ (/\ Len(hist) = 2
        /\ hist[2] = [op |-> "add", id |-> 1, cart |-> << >>]
        /\ hist[1].op = "add" /\ hist[1].id = 1) =>
        cartTotal(cart) = 66 /\ cartCount(cart) = 2
    /\ (/\ Len(hist) = 2
        /\ hist[2].op = "add" /\ hist[2].id = 1
        /\ cartTotal(hist[1].cart) = 66 /\ cartCount(hist[1].cart) = 2
        /\ Len(hist[1].cart) = 1
        /\ hist[1].op = "remove" /\ hist[1].id = 1) =>
        cartTotal(cart) = 33 /\ cartCount(cart) = 1
    /\ (/\ Len(hist) = 2
        /\ hist[2].op = "remove" /\ hist[2].id = 1
        /\ cartTotal(hist[2].cart) = 66 /\ cartCount(hist[2].cart) = 2
        /\ Len(hist[2].cart) = 1
        /\ hist[1].op = "remove" /\ hist[1].id = 1) =>
        cart = << >> /\ cartTotal(cart) = 0 /\ cartCount(cart) = 0

\* the end of the scenario: the second remove of product 1 empties the cart
C7_Witness ==
    /\ Len(hist) = 2
    /\ hist[2].op = "remove" /\ hist[2].id = 1
    /\ cartTotal(hist[2].cart) = 66 /\ Len(hist[2].cart) = 1
    /\ hist[1].op = "remove" /\ hist[1].id = 1
    /\ cart = << >>

(***************************************************************************)
(* Properties of the checkout, under Spec.                                 *)
(***************************************************************************)

\* the rows of order_items that belong to order orderId, in rowid order
RowsOf(orderId) ==
    SelectSeq(order_items, LAMBDA row : row.order_id = orderId)

\* C8: the total of every order request is cartTotal + 2 for the cart
\* contents sent as its items, and those are not empty.
C8_GrandTotal ==
    \A r \in requests :
        /\ r.body.items # << >>
        /\ r.body.total = cartTotal(r.body.items) + 2

\* a request for a cart of two lines, one with quantity 2
C8_Witness ==
    \E r \in requests :
        /\ r.status = "sent"
        /\ Len(r.body.items) >= 2
        /\ \E i \in DOMAIN r.body.items : r.body.items[i].quantity >= 2

\* the request r is settled by this step
Settles(r) == \A q \in requests' : q.rid # r.rid

\* C9: an ok response stands for an order the server created in full; a
\* request settled on a failure (500 or a rejected fetch) leaves the cart
\* and the route as they were; and the cart is emptied, other than by
\* removeFromCart, only in the step that settles an ok response.
C9_ClearOnlyOnOk ==
    /\ [](\A r \in requests : r.status = "ok" =>
            \E i \in DOMAIN orders :
                RowsOf(i) = ItemRows(i, r.body.items, Len(r.body.items)))
    /\ [][/\ \A r \in requests :
                (Settles(r) /\ r.status # "ok") =>
                    /\ cart' = cart
                    /\ route' = route
          /\ (/\ cart # << >>
              /\ cart' = << >>
              /\ ~ \E productId \in ProductIds : RemoveFromCart(productId)) =>
                \E r \in requests : Settles(r) /\ r.status = "ok"
         ]_vars

\* a failed submission was settled and the cart is still filled, on the
\* checkout page
C9_Witness ==
    /\ lastSettled \in {"fail", "reject"}
    /\ requests = {}
    /\ cart # << >>
    /\ route = "checkout"

\* C10: what is persisted for an order are the items and the total of the
\* cart at the moment Place Order was invoked.
C10_SnapshotPersisted ==
    \A i \in DOMAIN orders :
        /\ orders[i].total = cartTotal(placedCart[i]) + 2
        /\ RowsOf(i) = ItemRows(i, placedCart[i], Len(placedCart[i]))

\* The part of C10 that the code keeps: a request body is the cart of the
\* moment Place Order was invoked whatever is done to the cart afterwards,
\* and every persisted row is a row of that cart.
SnapshotDecoupled ==
    /\ \A r \in requests :
          /\ r.body.items = r.cartAtPlace
          /\ r.body.total = cartTotal(r.cartAtPlace) + 2
    /\ \A i \in DOMAIN orders :
          /\ orders[i].total = cartTotal(placedCart[i]) + 2
          /\ \E n \in 0..Len(placedCart[i]) :
                RowsOf(i) = ItemRows(i, placedCart[i], n)

(***************************************************************************)
(* Properties of POST /api/orders, under OrderSpec.                        *)
(***************************************************************************)

\* the order requests the server has answered
Answered == { r \in requests : r.status # "sent" }

\* C11: createOrder is atomic: every persisted order header has all of the
\* line-item rows of its request, one per item; an order whose insert
\* failed part of the way has left nothing in the store.
C11_Atomic ==
    \A i \in DOMAIN orders : Len(RowsOf(i)) = Len(placedCart[i])

\* C12: a createOrder answered with success has persisted one order header
\* with status 'pending' and the total of the request, and one order_items
\* row per item of the request with the item's product id, quantity and
\* price and the id of the order; the orderId of the answer is the id of
\* that header, and no two headers and no two answers have the same id.
\* No call persists more than one header.
C12_CreateOrder ==
    /\ \A r \in requests : r.status = "ok" =>
          LET o     == r.orderId
              items == r.body.items
          IN
          /\ o \in DOMAIN orders
          /\ orders[o].id = o
          /\ orders[o].status = "pending"
          /\ orders[o].total = r.body.total
          /\ RowsOf(o) = [k \in 1..Len(items) |->
                            [order_id |-> o, product_id |-> items[k].id,
                             quantity |-> items[k].quantity,
                             price |-> items[k].price]]
          /\ \A q \in requests : (q.status = "ok" /\ q # r) =>
                q.orderId # o
    /\ \A i, j \in DOMAIN orders : i # j => orders[i].id # orders[j].id
    /\ Len(orders) <= Cardinality(Answered)

\* two orders were created, the later one with two items, the first of
\* them with a quantity above 1, and with another total than the earlier one
C12_Witness ==
    \E r, q \in requests :
        /\ r.status = "ok" /\ q.status = "ok"
        /\ r.orderId = 1 /\ q.orderId = 2
        /\ Len(q.body.items) = 2
        /\ q.body.items[1].quantity >= 2
        /\ q.body.total # r.body.total

\* C18: an order created without a userId is stored with owner id 1; an
\* order created with a userId is stored with exactly that userId.
C18_Owner ==
    \A r \in requests : r.status = "ok" =>
        orders[r.orderId].user_id =
            IF r.body.userId = Absent THEN 1 ELSE r.body.userId

\* The part of C18 that the code keeps: a missing userId is stored as 1 and
\* a userId other than 0 as itself.
OwnerDefaulted ==
    \A r \in requests :
        /\ (r.status = "ok" /\ r.body.userId = Absent) =>
              orders[r.orderId].user_id = 1
        /\ (r.status = "ok" /\ r.body.userId \notin {Absent, 0}) =>
              orders[r.orderId].user_id = r.body.userId

(***************************************************************************)
(* Properties of the persisted orders over time, under HistorySpec and     *)
(* PriceSpec.                                                              *)
(***************************************************************************)

\* C15: GET /api/orders/user/:userId lists the orders of the user with the
\* later created order before the earlier created one, orders created in
\* the same second included.  Order ids grow in the order of creation.
C15_NewestFirst ==
    \A i, j \in DOMAIN listing.rows :
        i < j => listing.rows[i].id > listing.rows[j].id

\* The part of C15 that the code keeps: the listing holds the orders of the
\* user and no others, and an order created in a later second comes first.
ListedByTimestamp ==
    /\ \A i \in DOMAIN listing.rows : listing.rows[i].user_id = listing.userId
    /\ \A i, j \in DOMAIN listing.rows :
          i < j => listing.rows[i].created_at >= listing.rows[j].created_at

\* C19: the rows of an order hold the product id, the quantity and the unit
\* price of the request that created it, and no later step, a change of the
\* product's price included, changes a persisted order header or the item
\* rows of a persisted order.
C19_PriceCaptured ==
    /\ [](\A i \in DOMAIN orders :
            \A k \in DOMAIN RowsOf(i) :
                /\ RowsOf(i)[k].product_id = placedCart[i][k].id
                /\ RowsOf(i)[k].quantity = placedCart[i][k].quantity
                /\ RowsOf(i)[k].price = placedCart[i][k].price)
    /\ [][\A i \in DOMAIN orders :
            /\ i \in DOMAIN orders'
            /\ orders'[i] = orders[i]
            /\ RowsOf(i)' = RowsOf(i)]_vars

\* an order row holds another price than the product has now
C19_Witness ==
    \E k \in DOMAIN order_items :
        order_items[k].price # catalogPrice[order_items[k].product_id]

(***************************************************************************)
(* Properties of the accounts, under UserSpec.                             *)
(***************************************************************************)

\* the rows of a users table that have the email
WithEmail(table, email) ==
    { i \in DOMAIN table : table[i].email = email }

\* C13: a createUser call with an email that no persisted user has succeeds
\* and persists one user with that email; a call with an email that a
\* persisted user has fails with the duplicate-email error and leaves the
\* users table as it was; no two persisted users have the same email.  The
\* calls are those the store executes (not answered "Server error").
C13_UniqueEmail ==
    /\ \A i, j \in DOMAIN users : i # j => users[i].email # users[j].email
    /\ (authReply.call.op = "register" /\ authReply.status # 500) =>
          LET before == authReply.before
              email  == authReply.call.email
          IN
          IF WithEmail(before, email) # {}
          THEN /\ authReply.status = 400
               /\ ~authReply.success
               /\ authReply.message = "Email already exists"
               /\ users = before
          ELSE /\ authReply.status = 200
               /\ authReply.success
               /\ Len(users) = Len(before) + 1
               /\ \A i \in DOMAIN before : users[i] = before[i]
               /\ users[Len(users)].email = email
               /\ users[Len(users)].password = authReply.call.password
               /\ authReply.user = <<PublicUser(users[Len(users)])>>

\* a second call with an email was answered with the duplicate-email error,
\* in a table that holds another user too
C13_Witness ==
    /\ authReply.call.op = "register"
    /\ authReply.status = 400
    /\ WithEmail(authReply.before, authReply.call.email) # {}
    /\ Len(users) >= 2

\* C14: authenticate answers success with the user exactly when a persisted
\* user has exactly the email and exactly the password of the call, and 401
\* with success false otherwise; the users table is left as it was.
C14_Authenticate ==
    authReply.call.op = "login" =>
        LET before == authReply.before
            match  == { i \in DOMAIN before :
                          /\ before[i].email = authReply.call.email
                          /\ before[i].password = authReply.call.password }
        IN
        /\ authReply.success <=> match # {}
        /\ match # {} =>
              /\ authReply.status = 200
              /\ \E i \in match : authReply.user = <<PublicUser(before[i])>>
        /\ match = {} =>
              /\ authReply.status = 401
              /\ authReply.user = << >>
        /\ users = before

\* a login with the email of a user and another password than the user's
\* was refused
C14_Witness ==
    /\ authReply.call.op = "login"
    /\ ~authReply.success
    /\ \E i \in DOMAIN users :
          /\ users[i].email = authReply.call.email
          /\ users[i].password # authReply.call.password

(***************************************************************************)
(* Properties of the product search, under SearchSpec.                     *)
(***************************************************************************)

\* sub occurs in str at some offset
IsSubstring(sub, str) ==
    \E offset \in 0..(Len(str) - Len(sub)) :
        \A k \in 1..Len(sub) : str[offset + k] = sub[k]

\* the lowercased query occurs in the lowercased name or category of p
MatchesQuery(p) ==
    \/ IsSubstring(toLowerCase(searchQuery), toLowerCase(p.name))
    \/ IsSubstring(toLowerCase(searchQuery), toLowerCase(p.category))

\* what HomePage shows for the current products, query and category
Shown == filteredProducts(products, searchQuery, activeCategory)

\* C16: the search returns exactly the products whose lowercased name or
\* lowercased category contains the lowercased query and whose category is
\* the active category unless that is 'All'; the empty query with 'All'
\* returns all products.
C16_Search ==
    /\ Shown = SelectSeq(products, LAMBDA p :
                  /\ MatchesQuery(p)
                  /\ activeCategory = All \/ p.category = activeCategory)
    /\ (searchQuery = << >> /\ activeCategory = All) => Shown = products

\* a query with a capital letter, under a category other than 'All',
\* returns some of the products and not all
C16_Witness ==
    /\ \E i \in DOMAIN searchQuery : searchQuery[i] # toLowerCase(searchQuery)[i]
    /\ activeCategory # All
    /\ Shown # << >>
    /\ Len(Shown) < Len(products)

\* C17: once the catalog is loaded, a query that is in neither the name nor
\* the category of any product gives an empty result, shown as
\* "No products found".
C17_NoResults ==
    (~loading /\ \A i \in DOMAIN products : ~MatchesQuery(products[i])) =>
        /\ Shown = << >>
        /\ ProductGrid(loading, Shown) = "No products found"

\* a query that matches nothing in a loaded catalog of several products
C17_Witness ==
    /\ ~loading
    /\ Len(products) >= 2
    /\ searchQuery # << >>
    /\ \A i \in DOMAIN products : ~MatchesQuery(products[i])

(***************************************************************************)
(* Properties of the AI suggestions, under RecSpec.                        *)
(***************************************************************************)

\* C21: when a recommendation call fails, the suggestion list becomes the
\* empty list, whatever it held before.
C21_FailureClears ==
    [][\A k \in DOMAIN recCalls :
          RecommendationFailed(k) => aiRecommendations' = << >>]_vars

\* C22: the suggestions are empty whenever the cart is, and the result of a
\* recommendation call is applied only if the cart is still the one the
\* call was issued for.
C22_FreshOnly ==
    /\ [](Ready /\ cart = << >> => aiRecommendations = << >>)
    /\ [][\A k \in DOMAIN recCalls : \A response \in Responses :
             (RecommendationResolved(k, response) /\ recCalls[k].cart # cart)
                => aiRecommendations' = aiRecommendations]_vars

\* Place Order can be clicked
PlaceOrderOffered ==
    /\ route = "checkout"
    /\ Len(cart) > 0
    /\ ~isPlacingOrder
    /\ user = NoUser \/ placed < MaxPlaced

\* C23: however many recommendation calls are pending, adding a unit,
\* removing a unit and Place Order are enabled as they are without any, and
\* a step that issues or settles a call leaves the cart, the page and the
\* order requests alone.
C23_NeverBlocks ==
    /\ [](Ready =>
            /\ \A product \in Products :
                  ENABLED AddToCart(product) <=>
                     /\ route = "home" \/ HasLine(cart, product.id)
                     /\ QuantityOf(cart, product.id) < MaxQty
            /\ \A productId \in ProductIds : ENABLED RemoveFromCart(productId)
            /\ ENABLED PlaceOrder <=> PlaceOrderOffered)
    /\ [][(recCalls' # recCalls \/ aiRecommendations' # aiRecommendations)
             => UNCHANGED <<cart, user, route, isPlacingOrder, requests,
                            placed, orders, order_items>>]_vars

\* an order was placed for the cart the latest of two pending calls was
\* issued for
C23_Witness ==
    /\ Len(recCalls) = 2
    /\ recCalls[2].cart = cart
    /\ Len(cart) = 2
    /\ \E r \in requests : r.cartAtPlace = cart /\ r.status = "sent"

(***************************************************************************)
(* Properties of the form of AuthPage, under AuthSpec.                     *)
(***************************************************************************)

\* C24: when a login or register call is answered success = false or fails
\* in transport, the form ends with a non-empty error, the session user and
\* the user saved in localStorage are as before, and the form stays on the
\* auth page.
C24_FailureShown ==
    [][(AuthRejected \/ (AuthSettled /\ ~authReply.success)) =>
          /\ authError' # ""
          /\ ~authLoading'
          /\ user' = user
          /\ savedUser' = savedUser
          /\ route' = route]_vars

\* a registration with an email that is taken was refused, with nobody
\* logged in
C24_Witness ==
    /\ authError = "Email already exists"
    /\ ~authLoading
    /\ authReply.status = 400
    /\ user = NoUser
    /\ savedUser = NoUser
    /\ route = "auth"

(***************************************************************************)
(* Properties of Place Order, under Spec.                                  *)
(***************************************************************************)

\* the request r is issued by this step
Issues(r) == \A q \in requests : q.rid # r.rid

\* C25: Place Order with nobody logged in sends no request, leaves the cart
\* as it is and leads to the auth page; a request carries the id of the
\* user logged in when it was issued, and the order created for it is
\* stored with that id.
C25_OwnerAtPlaceOrder ==
    /\ [](\A r \in requests : r.body.userId \notin {NoUser, Absent})
    /\ [][/\ (PlaceOrder /\ user = NoUser) =>
                /\ \A r \in requests' : ~Issues(r)
                /\ placed' = placed
                /\ orders' = orders
                /\ cart' = cart
                /\ route' = "auth"
          /\ \A r \in requests' :
                Issues(r) => user # NoUser /\ r.body.userId = user
          /\ Len(orders') > Len(orders) =>
                \E r \in requests :
                    /\ r.status = "sent"
                    /\ orders'[Len(orders')].user_id = r.body.userId
         ]_vars

\* an order of user 1 is stored; nobody is logged in now, and the filled
\* cart was taken to the auth page without a request
C25_Witness ==
    /\ user = NoUser
    /\ route = "auth"
    /\ cart # << >>
    /\ requests = {}
    /\ placed = 1
    /\ \E i \in DOMAIN orders : orders[i].user_id = 1

\* C27: every order request of the checkout carries at least one item, no
\* two items of it have the same product id, and every item has a quantity
\* of at least 1.
C27_WellFormedItems ==
    \A r \in requests :
        LET items == r.body.items IN
        /\ Len(items) >= 1
        /\ \A i, j \in DOMAIN items : i # j => items[i].id # items[j].id
        /\ \A i \in DOMAIN items : items[i].quantity >= 1

\* a request of two products is outstanding while the cart has been emptied
C27_Witness ==
    /\ cart = << >>
    /\ \E r \in requests :
          /\ r.status = "sent"
          /\ Len(r.body.items) = 2
          /\ r.body.items[1].id # r.body.items[2].id

\* C26: the cart that a successful checkout clears holds exactly the lines
\* that were submitted with the request.
C26_ClearsWhatWasOrdered ==
    [][\A r \in requests :
          (Settles(r) /\ r.status = "ok" /\ cart' = << >>) =>
              cart = r.body.items]_vars

(***************************************************************************)
(* Properties of the queued cart updates, under BatchSpec.                 *)
(***************************************************************************)

\* the quantity q of product id after the calls of updates one after
\* another: addToCart(id) adds a unit, removeFromCart(id) takes one away
\* if there is one, a call for another product leaves it
RECURSIVE QuantityAfter(_, _, _)
QuantityAfter(q, id, updates) ==
    IF updates = << >> THEN q
    ELSE LET first == updates[1]
             next  == IF first.id # id THEN q
                      ELSE IF first.op = "add" THEN q + 1
                      ELSE IF q >= 1 THEN q - 1
                      ELSE 0
         IN  QuantityAfter(next, id, Tail(updates))

\* C28: after a render that processed addToCart and removeFromCart calls
\* dispatched back to back, the quantity of every product is the one
\* obtained by applying the calls one after another in dispatch order.
C28_NoLostUpdate ==
    flushed.updates # << >> =>
        \A id \in ProductIds :
            QuantityOf(cart, id) =
                QuantityAfter(QuantityOf(flushed.base, id), id,
                              flushed.updates)

\* a render processed two addToCart calls and a removeFromCart call for
\* the same product
C28_Witness ==
    \E id \in ProductIds :
        /\ Len(flushed.updates) >= 3
        /\ \A k \in DOMAIN flushed.updates : flushed.updates[k].id = id
        /\ Cardinality({ k \in DOMAIN flushed.updates :
                            flushed.updates[k].op = "add" }) >= 2
        /\ \E k \in DOMAIN flushed.updates : flushed.updates[k].op = "remove"
        /\ QuantityOf(cart, id) >= 1

(***************************************************************************)
(* Properties of the progress of a checkout, under LiveSpec.               *)
(***************************************************************************)

\* C29: a checkout submission finishes: the request is settled, whether it
\* is answered ok, answered with an error or fails in transport, and
\* isPlacingOrder is false again.
C29_SubmissionFinishes ==
    /\ isPlacingOrder ~> ~isPlacingOrder
    /\ \A rid \in 1..MaxPlaced :
          (\E r \in requests : r.rid = rid) ~> (\A r \in requests : r.rid # rid)

\* a submission that failed in transport is finished, and Place Order is
\* offered for the cart again
C29_Witness ==
    /\ lastSettled = "reject"
    /\ requests = {}
    /\ ~isPlacingOrder
    /\ route = "checkout"
    /\ Len(cart) = 2

(***************************************************************************)
(* Properties of the accounts over time, under AccountSpec.                *)
(***************************************************************************)

\* C30: the user a successful register call returns is the row it wrote;
\* no later register, login or order call changes or removes a row; and a
\* login with the email of a row succeeds with that row's user exactly when
\* the password is the row's, and fails with any other password.
C30_RoundTrip ==
    /\ []((authReply.call.op = "register" /\ authReply.success) =>
            LET i == Len(authReply.before) + 1 IN
            /\ i \in DOMAIN users
            /\ users[i].email = authReply.call.email
            /\ users[i].password = authReply.call.password
            /\ authReply.user = <<PublicUser(users[i])>>)
    /\ [][\A i \in DOMAIN users :
             i \in DOMAIN users' /\ users'[i] = users[i]]_vars
    /\ [](authReply.call.op = "login" =>
            \A i \in DOMAIN users :
                users[i].email = authReply.call.email =>
                    IF users[i].password = authReply.call.password
                    THEN /\ authReply.success
                         /\ authReply.user = <<PublicUser(users[i])>>
                    ELSE ~authReply.success)

\* the first user logged in after another user was registered and an order
\* was created
C30_Witness ==
    /\ authReply.call.op = "login"
    /\ authReply.success
    /\ authReply.user = <<PublicUser(users[1])>>
    /\ Len(users) >= 2
    /\ orders # << >>

(***************************************************************************)
(* Properties of the resubmission, under ResubmitSpec.                     *)
(***************************************************************************)

\* C20: the client never has two order requests outstanding at the same
\* time.
C20_SingleOutstanding ==
    Cardinality(requests) <= 1

=============================================================================
